---- MODULE Spec2Model ----
(***************************************************************************)
(* LocalChefBazaar server (src/index.js): the Express route handlers over  *)
(* the MongoDB collections order_collection, reviews, add-food, favorites  *)
(* and users.                                                              *)
(*                                                                         *)
(* Every handler is an async function: it runs without interruption from   *)
(* one awaited database call to the next, and handlers of other requests   *)
(* may run between two of its database calls.  A database call is atomic   *)
(* on its document.  The model has one action per awaited database call:   *)
(* the call itself together with the handler's code that follows it, up    *)
(* to the next call or the response.  The action of a handler's first      *)
(* call also holds the synchronous code before it (the arrival of the      *)
(* request), which touches no shared state.                                *)
(***************************************************************************)
EXTENDS Integers, FiniteSets, Sequences, TLC

\* ------------------------------------------------------------------ bounds

\* Documents ever inserted in order_collection, reviews and favorites
\* (the driver's fresh ObjectIds 1..Max).
MaxOrders == 2
MaxReviews == 2
MaxFavorites == 2

\* Users that POST /users ever inserts (fresh ObjectIds 1..MaxUsers).
MaxUsers == 2

\* Meals stored in add-food (ObjectIds 1..MaxFoods); MaxFoods + 1 is a
\* well-formed id that no meal has.
MaxFoods == 1

\* Requests that may be in flight at the same time.
Reqs == {"r1", "r2"}

\* Verified principals (req.tokenEmail) and e-mail fields of payloads.
Emails == {"a@x", "b@x"}

\* Values of req.body.status: the three the handler knows and one it rejects.
StatusInputs == {"accepted", "cancelled", "delivered", "shipped"}

\* Values of req.body.rating.
RatingInputs == {1, 2, 4}

\* Values of req.body.role: two the handler knows and one it rejects.
RoleInputs == {"chef", "admin", "owner"}

\* The users stored at the start and their e-mails; "c@x" has no user record.
UserIds == {1, 2}
UserEmail == <<"a@x", "b@x">>
Principals == {"a@x", "b@x", "c@x"}

VARIABLES
    orders,          \* order_collection: _id -> document
    nextOrderId,     \* the next ObjectId the driver generates for an order
    reviews,         \* reviews: _id -> document
    nextReviewId,
    foods,           \* add-food: _id -> document (the rating field)
    favorites,       \* favorites: _id -> document
    nextFavoriteId,
    users,           \* users: _id -> document
    nextUserId,
    req              \* per request slot: the handler's position, locals, response

vars == <<orders, nextOrderId, reviews, nextReviewId, foods,
          favorites, nextFavoriteId, users, nextUserId, req>>

orderVars == <<orders, nextOrderId>>
reviewVars == <<reviews, nextReviewId, foods>>
favoriteVars == <<favorites, nextFavoriteId>>
userVars == <<users, nextUserId>>

\* ------------------------------------------------------------- request slots

\* A rating as the fraction num/den in lowest terms (JavaScript's number).
Zero == <<0, 1>>

\* A slot that holds no request.
NoRequest ==
    [op |-> "none", pc |-> "idle", id |-> 0, n |-> 0, arg |-> "none",
     who |-> "none", body |-> <<"", "">>, ins |-> 0, code |-> 0, msg |-> "none",
     err |-> "none", val |-> Zero]

\* No handler is running in slot r.
Free(r) == req[r].pc \in {"idle", "done"}

\* The handler of slot r stands before the awaited call `call` of route `op`.
At(r, op, call) == req[r].op = op /\ req[r].pc = call

\* The locals of a handler that has just started: the route, the call it
\* awaits, the id it names (req.params.id, foodId or mealId), the payload's
\* rating, the payload's e-mail, status or role, and req.tokenEmail.  ins is
\* the _id the driver generates for the document the handler inserts, body
\* the two further payload fields of POST /orders (orderStatus,
\* paymentStatus) and POST /users (role, status), "" for a missing field; err
\* is the error a catch block sends along, set when a driver call rejected.
Arrive(op, call, id, n, arg, who) ==
    [op |-> op, pc |-> call, id |-> id, n |-> n, arg |-> arg, who |-> who,
     body |-> <<"", "">>, ins |-> 0, code |-> 0, msg |-> "none", err |-> "none",
     val |-> Zero]

\* The handler with locals q moves on to its next awaited call.
Await(r, q, call) == [req EXCEPT ![r] = [q EXCEPT !.pc = call]]

\* res.status(code).send(msg): the handler in slot r is finished.  The slot
\* keeps the response until its next request; only the latest response of
\* the server is kept.
Respond(r, q, code, msg) ==
    [s \in Reqs |->
        IF s = r THEN [q EXCEPT !.pc = "done", !.code = code, !.msg = msg]
        ELSE IF req[s].pc = "done" THEN NoRequest
        ELSE req[s]]

\* new ObjectId(s): route parameters 1..n stand for well-formed 24-digit hex
\* strings, 0 for a string the ObjectId constructor rejects by throwing.
IsObjectId(s) == s # 0

\* insertOne / updateOne ($set) / deleteOne on a collection.
Insert(coll, id, doc) ==
    [x \in DOMAIN coll \cup {id} |-> IF x = id THEN doc ELSE coll[x]]

\* An update whose filter matches every document.
Update_All(coll, id, doc) == [x \in DOMAIN coll |-> doc]

Update(coll, id, doc) ==
    [x \in DOMAIN coll |-> IF x = id THEN doc ELSE coll[x]]

Delete(coll, id) == [x \in DOMAIN coll \ {id} |-> coll[x]]

\* ------------------------------------------------------------------- orders

OrderIdInputs == 0..MaxOrders

validStatus == {"accepted", "cancelled", "delivered"}

\* The orderStatus and paymentStatus a POST /orders payload carries, "" for
\* a missing field.
OrderPayloads == {<<"", "">>, <<"delivered", "paid">>, <<"shipped", "refunded">>}

\* req.body of POST /orders.
OrderBody(userEmail, body) ==
    [userEmail |-> userEmail, orderStatus |-> body[1],
     paymentStatus |-> body[2], paidAt |-> "unset"]

\* The payload stored as it came.
orderData_AsSent(body) == body

\* orderData.orderStatus = 'pending'; orderData.paymentStatus = 'pending'
orderData(body) ==
    [body EXCEPT !.orderStatus = "pending", !.paymentStatus = "pending"]

\* The document stored for a payload without status fields.
NewOrder(userEmail) ==
    [userEmail |-> userEmail, orderStatus |-> "pending",
     paymentStatus |-> "pending", paidAt |-> "unset"]

\* app.post('/orders'): the handler overwrites both status fields of the
\* payload, the driver generates the _id, insertOne stores the document.
PostOrders(r, userEmail) ==
    /\ Free(r)
    /\ nextOrderId <= MaxOrders
    /\ \E body \in OrderPayloads :
          /\ orders' = Insert(orders, nextOrderId,
                              orderData(OrderBody(userEmail, body)))
          /\ req' = Respond(r, [Arrive("POST /orders", "insertOne", 0, 0,
                                       userEmail, "none")
                                  EXCEPT !.ins = nextOrderId, !.body = body],
                            200, "success")
    /\ nextOrderId' = nextOrderId + 1
    /\ UNCHANGED <<reviewVars, favoriteVars, userVars>>

\* The closed-order rule without 'delivered'.
OrderClosed_OnlyCancelled(order) == order.orderStatus \in {"cancelled"}

\* The status handler without its accepted-first rule.
MustBeAcceptedFirst_Dropped(status, order) == FALSE

\* RULES of the status handler, on the document findOne returned.
OrderClosed(order) == order.orderStatus \in {"cancelled", "delivered"}

MustBeAcceptedFirst(status, order) ==
    status = "delivered" /\ order.orderStatus # "accepted"

\* app.patch('/orders/:id/status'): the status check, findOne, the rules.
PatchOrderStatus(r, id, status) ==
    /\ Free(r)
    /\ LET q == Arrive("PATCH /orders/:id/status", "findOne", id, 0, status, "none")
       IN  req' = IF status \notin validStatus
                    THEN Respond(r, q, 400, "Invalid status")
                  ELSE IF ~IsObjectId(id)
                    THEN Respond(r, q, 500, "Failed to update order status")
                  ELSE IF id \notin DOMAIN orders
                    THEN Respond(r, q, 404, "Order not found")
                  ELSE IF OrderClosed(orders[id])
                    THEN Respond(r, q, 400, "Order already closed")
                  ELSE IF MustBeAcceptedFirst(status, orders[id])
                    THEN Respond(r, q, 400, "Order must be accepted first")
                  ELSE Await(r, q, "updateOne")
    /\ UNCHANGED <<orderVars, reviewVars, favoriteVars, userVars>>

\* The status update as a replacement of the whole document.
SetOrderStatus_Replace(order, status) ==
    [NewOrder(order.userEmail) EXCEPT !.orderStatus = status]

\* {$set: {orderStatus: status}}
SetOrderStatus(order, status) == [order EXCEPT !.orderStatus = status]

\* updateOne matches nothing when the document is gone, and still resolves.
PatchOrderStatus_updateOne(r) ==
    /\ At(r, "PATCH /orders/:id/status", "updateOne")
    /\ orders' = IF req[r].id \in DOMAIN orders
                   THEN Update(orders, req[r].id,
                               SetOrderStatus(orders[req[r].id], req[r].arg))
                   ELSE orders
    /\ req' = Respond(r, req[r], 200, "success")
    /\ UNCHANGED <<nextOrderId, reviewVars, favoriteVars, userVars>>

\* The pay update without the paymentStatus field.
SetPaid_OnlyDate(order) == [order EXCEPT !.paidAt = "set"]

\* {$set: {paymentStatus: 'paid', paidAt: new Date()}}
SetPaid(order) == [order EXCEPT !.paymentStatus = "paid", !.paidAt = "set"]

\* app.patch('/orders/:id/pay'): one updateOne, no lookup before it.
PatchOrderPay(r, id) ==
    /\ Free(r)
    /\ LET q == Arrive("PATCH /orders/:id/pay", "updateOne", id, 0, "none", "none")
       IN  IF ~IsObjectId(id)
             THEN /\ req' = Respond(r, q, 500, "Failed to update payment")
                  /\ UNCHANGED orders
             ELSE /\ req' = Respond(r, q, 200, "success")
                  /\ orders' = IF id \in DOMAIN orders
                                 THEN Update(orders, id, SetPaid(orders[id]))
                                 ELSE orders
    /\ UNCHANGED <<nextOrderId, reviewVars, favoriteVars, userVars>>

\* The delete handlers without their owner check.
NotOwner_Never(email, tokenEmail) == FALSE

\* The resource-owner check of the three delete handlers.
NotOwner(email, tokenEmail) == email # tokenEmail

\* app.delete('/orders/:id'): findOne and the two checks.
DeleteOrder(r, id, tokenEmail) ==
    /\ Free(r)
    /\ LET q == Arrive("DELETE /orders/:id", "findOne", id, 0, "none", tokenEmail)
       IN  req' = IF ~IsObjectId(id)
                    THEN Respond(r, q, 500, "Failed to delete order")
                  ELSE IF id \notin DOMAIN orders
                    THEN Respond(r, q, 404, "Order not found")
                  ELSE IF NotOwner(orders[id].userEmail, tokenEmail)
                    THEN Respond(r, q, 403, "Forbidden")
                  ELSE Await(r, q, "deleteOne")
    /\ UNCHANGED <<orderVars, reviewVars, favoriteVars, userVars>>

DeleteOrder_deleteOne(r) ==
    /\ At(r, "DELETE /orders/:id", "deleteOne")
    /\ orders' = Delete(orders, req[r].id)
    /\ req' = Respond(r, req[r], 200, "Order deleted")
    /\ UNCHANGED <<nextOrderId, reviewVars, favoriteVars, userVars>>

\* ------------------------------------------------------------------ reviews

FoodIdInputs == 0..(MaxFoods + 1)
ReviewIdInputs == 0..MaxReviews

RECURSIVE Gcd(_, _)
Gcd(a, b) == IF b = 0 THEN a ELSE Gcd(b, a % b)

\* sum / length as a JavaScript number: the quotient in lowest terms.
Quotient(sum, length) ==
    LET g == Gcd(sum, length) IN <<sum \div g, length \div g>>

\* find() without the foodId filter.
FindByFoodId_All(foodId) == DOMAIN reviews

\* reviewsCollection.find({foodId}).toArray(): the ids of the matching reviews.
FindByFoodId(foodId) == {x \in DOMAIN reviews : reviews[x].foodId = foodId}

\* found.reduce((sum, r) => sum + r.rating, 0)
RECURSIVE SumRating(_)
SumRating(found) ==
    IF found = {} THEN 0
    ELSE LET x == CHOOSE y \in found : TRUE
         IN  reviews[x].rating + SumRating(found \ {x})

\* The sum, not divided by the number of reviews.
avgRating_Sum(found) == <<SumRating(found), 1>>

\* reviews.length > 0 ? sum / reviews.length : 0
avgRating(found) ==
    IF Cardinality(found) > 0
    THEN Quotient(SumRating(found), Cardinality(found))
    ELSE Zero

\* app.post('/reviews'): the review is stored first.
PostReviews(r, foodId, rating, reviewerEmail) ==
    /\ Free(r)
    /\ nextReviewId <= MaxReviews
    /\ reviews' = Insert(reviews, nextReviewId,
                         [foodId |-> foodId, rating |-> rating,
                          reviewerEmail |-> reviewerEmail])
    /\ nextReviewId' = nextReviewId + 1
    /\ req' = Await(r, [Arrive("POST /reviews", "insertOne", foodId, rating,
                               reviewerEmail, "none")
                          EXCEPT !.ins = nextReviewId], "find")
    /\ UNCHANGED <<foods, orderVars, favoriteVars, userVars>>

\* find, the mean, and new ObjectId(reviewData.foodId) for the update's filter.
PostReviews_find(r) ==
    /\ At(r, "POST /reviews", "find")
    /\ LET q == [req[r] EXCEPT !.val = avgRating(FindByFoodId(req[r].id))]
       IN  req' = IF ~IsObjectId(q.id)
                    THEN Respond(r, q, 500, "Failed to submit review")
                    ELSE Await(r, q, "updateOne")
    /\ UNCHANGED <<reviewVars, orderVars, favoriteVars, userVars>>

\* {$set: {rating: avgRating}} on the meal, when there is one.
PostReviews_updateOne(r) ==
    /\ At(r, "POST /reviews", "updateOne")
    /\ foods' = IF req[r].id \in DOMAIN foods
                  THEN Update(foods, req[r].id,
                              [foods[req[r].id] EXCEPT !.rating = req[r].val])
                  ELSE foods
    /\ req' = Respond(r, req[r], 200, "success")
    /\ UNCHANGED <<reviews, nextReviewId, orderVars, favoriteVars, userVars>>

\* app.delete('/reviews/:id'): findOne and the two checks.
DeleteReview(r, id, tokenEmail) ==
    /\ Free(r)
    /\ LET q == Arrive("DELETE /reviews/:id", "findOne", id, 0, "none", tokenEmail)
       IN  req' = IF ~IsObjectId(id)
                    THEN Respond(r, q, 500, "Failed to delete review")
                  ELSE IF id \notin DOMAIN reviews
                    THEN Respond(r, q, 404, "Review not found")
                  ELSE IF NotOwner(reviews[id].reviewerEmail, tokenEmail)
                    THEN Respond(r, q, 403, "Forbidden")
                  ELSE Await(r, q, "deleteOne")
    /\ UNCHANGED <<reviewVars, orderVars, favoriteVars, userVars>>

\* deleteOne; the meal's rating is not written.
DeleteReview_deleteOne(r) ==
    /\ At(r, "DELETE /reviews/:id", "deleteOne")
    /\ reviews' = Delete(reviews, req[r].id)
    /\ req' = Respond(r, req[r], 200, "Review deleted")
    /\ UNCHANGED <<nextReviewId, foods, orderVars, favoriteVars, userVars>>

\* ---------------------------------------------------------------- favorites

MealIdInputs == 1..MaxFoods
FavoriteIdInputs == 0..MaxFavorites

\* favoritesCollection.findOne({userEmail, mealId})
FavoriteExists(userEmail, mealId) ==
    \E x \in DOMAIN favorites :
        favorites[x].userEmail = userEmail /\ favorites[x].mealId = mealId

\* app.post('/favorites'): the existence check.
PostFavorites(r, userEmail, mealId) ==
    /\ Free(r)
    /\ LET q == Arrive("POST /favorites", "findOne", mealId, 0, userEmail, "none")
       IN  IF FavoriteExists(userEmail, mealId)
             THEN /\ req' = Respond(r, q, 200, "Meal already in favorites")
                  /\ UNCHANGED nextFavoriteId
             ELSE /\ nextFavoriteId <= MaxFavorites
                  /\ req' = Await(r, [q EXCEPT !.ins = nextFavoriteId], "insertOne")
                  /\ nextFavoriteId' = nextFavoriteId + 1
    /\ UNCHANGED <<favorites, orderVars, reviewVars, userVars>>

PostFavorites_insertOne(r) ==
    /\ At(r, "POST /favorites", "insertOne")
    /\ favorites' = Insert(favorites, req[r].ins,
                           [userEmail |-> req[r].arg, mealId |-> req[r].id])
    /\ req' = Respond(r, req[r], 200, "success")
    /\ UNCHANGED <<nextFavoriteId, orderVars, reviewVars, userVars>>

\* app.delete('/favorites/:id'): findOne and the two checks.
DeleteFavorite(r, id, tokenEmail) ==
    /\ Free(r)
    /\ LET q == Arrive("DELETE /favorites/:id", "findOne", id, 0, "none", tokenEmail)
       IN  req' = IF ~IsObjectId(id)
                    THEN Respond(r, q, 500, "Failed to delete favorite")
                  ELSE IF id \notin DOMAIN favorites
                    THEN Respond(r, q, 404, "Favorite not found")
                  ELSE IF NotOwner(favorites[id].userEmail, tokenEmail)
                    THEN Respond(r, q, 403, "Forbidden")
                  ELSE Await(r, q, "deleteOne")
    /\ UNCHANGED <<favoriteVars, orderVars, reviewVars, userVars>>

DeleteFavorite_deleteOne(r) ==
    /\ At(r, "DELETE /favorites/:id", "deleteOne")
    /\ favorites' = Delete(favorites, req[r].id)
    /\ req' = Respond(r, req[r], 200, "Favorite deleted")
    /\ UNCHANGED <<nextFavoriteId, orderVars, reviewVars, userVars>>

\* -------------------------------------------------------------------- users

UserIdInputs == 0..(Cardinality(UserIds) + 1)

validRoles == {"user", "chef", "admin"}

\* usersCollection.findOne({email}): the _id of the first stored user with
\* that e-mail, 0 when there is none (null).
FindByEmail(email) ==
    LET found == {x \in DOMAIN users : users[x].email = email}
    IN  IF found = {} THEN 0
        ELSE CHOOSE x \in found : \A y \in found : x <= y

\* !currentUser || currentUser.role !== 'admin'
NotAdmin(tokenEmail) ==
    FindByEmail(tokenEmail) = 0 \/ users[FindByEmail(tokenEmail)].role # "admin"

\* Values of req.body.role and req.body.status; "" is a payload without the
\* field.
RolePayloads == {"", "admin"}
StatusPayloads == {"", "fraud"}

\* userData.role || 'user', userData.status || 'active'
NewUser(email, role, status) ==
    [email |-> email,
     role |-> IF role = "" THEN "user" ELSE role,
     status |-> IF status = "" THEN "active" ELSE status]

\* app.post('/users'): findOne by e-mail; an existing user is returned as
\* it is.  No token is asked for.
PostUsers(r, email, role, status) ==
    /\ Free(r)
    /\ LET q == Arrive("POST /users", "findOne", 0, 0, email, "none")
       IN  IF FindByEmail(email) # 0
             THEN /\ req' = Respond(r, [q EXCEPT !.id = FindByEmail(email)],
                                    200, "User already exists")
                  /\ UNCHANGED nextUserId
             ELSE /\ nextUserId <= MaxUsers
                  /\ req' = Await(r, [q EXCEPT !.ins = nextUserId,
                                               !.body = <<role, status>>],
                                  "insertOne")
                  /\ nextUserId' = nextUserId + 1
    /\ UNCHANGED <<users, orderVars, reviewVars, favoriteVars>>

PostUsers_insertOne(r) ==
    /\ At(r, "POST /users", "insertOne")
    /\ users' = Insert(users, req[r].ins,
                       NewUser(req[r].arg, req[r].body[1], req[r].body[2]))
    /\ req' = Respond(r, req[r], 200, "success")
    /\ UNCHANGED <<nextUserId, orderVars, reviewVars, favoriteVars>>

\* app.patch('/users/:id/role'): the role check, findOne of the requester,
\* the admin check, and new ObjectId(id) for the next findOne's filter.
PatchUserRole(r, id, role, tokenEmail) ==
    /\ Free(r)
    /\ LET q == Arrive("PATCH /users/:id/role", "findOne", id, 0, role, tokenEmail)
       IN  req' = IF role \notin validRoles
                    THEN Respond(r, q, 400, "Invalid role")
                  ELSE IF NotAdmin(tokenEmail)
                    THEN Respond(r, q, 403, "Only admin can update roles")
                  ELSE IF ~IsObjectId(id)
                    THEN Respond(r, q, 500, "Failed to update user role")
                  ELSE Await(r, q, "findOne")
    /\ UNCHANGED <<userVars, orderVars, reviewVars, favoriteVars>>

\* findOne of the target user.
PatchUserRole_findOne(r) ==
    /\ At(r, "PATCH /users/:id/role", "findOne")
    /\ req' = IF req[r].id \notin DOMAIN users
                THEN Respond(r, req[r], 404, "User not found")
                ELSE Await(r, req[r], "updateOne")
    /\ UNCHANGED <<userVars, orderVars, reviewVars, favoriteVars>>

\* {$set: {role}}
PatchUserRole_updateOne(r) ==
    /\ At(r, "PATCH /users/:id/role", "updateOne")
    /\ users' = IF req[r].id \in DOMAIN users
                  THEN Update(users, req[r].id,
                              [users[req[r].id] EXCEPT !.role = req[r].arg])
                  ELSE users
    /\ req' = Respond(r, req[r], 200, "success")
    /\ UNCHANGED <<nextUserId, orderVars, reviewVars, favoriteVars>>

\* app.patch('/users/:id/fraud'): findOne of the target and the two guards;
\* the requester is authenticated and not looked up.
\* user.role === 'admin'
IsAdminUser(user) == user.role = "admin"

\* The already-fraud check left out.
AlreadyFraud_Never(user) == FALSE

\* user.status === 'fraud'
AlreadyFraud(user) == user.status = "fraud"

PatchUserFraud(r, id, tokenEmail) ==
    /\ Free(r)
    /\ LET q == Arrive("PATCH /users/:id/fraud", "findOne", id, 0, "none", tokenEmail)
       IN  req' = IF ~IsObjectId(id)
                    THEN Respond(r, q, 500, "Failed to update user status")
                  ELSE IF id \notin DOMAIN users
                    THEN Respond(r, q, 404, "User not found")
                  ELSE IF IsAdminUser(users[id])
                    THEN Respond(r, q, 403, "Cannot mark admin as fraud")
                  ELSE IF AlreadyFraud(users[id])
                    THEN Respond(r, q, 400, "User already marked as fraud")
                  ELSE Await(r, q, "updateOne")
    /\ UNCHANGED <<userVars, orderVars, reviewVars, favoriteVars>>

\* {$set: {status: 'fraud'}}
PatchUserFraud_updateOne(r) ==
    /\ At(r, "PATCH /users/:id/fraud", "updateOne")
    /\ users' = IF req[r].id \in DOMAIN users
                  THEN Update(users, req[r].id,
                              [users[req[r].id] EXCEPT !.status = "fraud"])
                  ELSE users
    /\ req' = Respond(r, req[r], 200, "success")
    /\ UNCHANGED <<nextUserId, orderVars, reviewVars, favoriteVars>>

\* ----------------------------------------------------------- storage faults

\* The first awaited call of the handlers of the order and review routes.
FirstCall(op) ==
    CASE op = "POST /orders" -> "insertOne"
      [] op = "PATCH /orders/:id/status" -> "findOne"
      [] op = "PATCH /orders/:id/pay" -> "updateOne"
      [] op = "DELETE /orders/:id" -> "findOne"
      [] op = "POST /reviews" -> "insertOne"
      [] op = "DELETE /reviews/:id" -> "findOne"

CoreOps == {"POST /orders", "PATCH /orders/:id/status", "PATCH /orders/:id/pay",
            "DELETE /orders/:id", "POST /reviews", "DELETE /reviews/:id"}

\* The message of each handler's catch block.
FailureMessage(op) ==
    CASE op = "POST /orders" -> "Failed to place order"
      [] op = "PATCH /orders/:id/status" -> "Failed to update order status"
      [] op = "PATCH /orders/:id/pay" -> "Failed to update payment"
      [] op = "DELETE /orders/:id" -> "Failed to delete order"
      [] op = "POST /reviews" -> "Failed to submit review"
      [] op = "DELETE /reviews/:id" -> "Failed to delete review"

\* A rejection that no handler answers: the request is left without a
\* response.
Catch_Unhandled(r, q) == Await(r, [q EXCEPT !.err = "MongoError"], "unhandled")

\* catch (err) { res.status(500).send({message, err}) } for the rejection of
\* an awaited driver call: the handler ends there.
Catch(r, q) ==
    Respond(r, [q EXCEPT !.err = "MongoError"], 500, FailureMessage(q.op))

\* A request arrives and the first driver call of its handler rejects.  The
\* statements before that call have passed: the status is a valid one, the
\* route's id is a well-formed ObjectId string.
FirstCallFails(r, op, id, n, arg, who) ==
    /\ Free(r)
    /\ op = "PATCH /orders/:id/status" => arg \in validStatus
    /\ op \notin {"POST /orders", "POST /reviews"} => IsObjectId(id)
    /\ req' = Catch(r, Arrive(op, FirstCall(op), id, n, arg, who))
    /\ UNCHANGED <<orderVars, reviewVars, favoriteVars, userVars>>

\* The driver call a handler of these routes stands before rejects.
LaterCallFails(r) ==
    /\ ~Free(r)
    /\ req[r].op \in CoreOps
    /\ req' = Catch(r, req[r])
    /\ UNCHANGED <<orderVars, reviewVars, favoriteVars, userVars>>

\* ------------------------------------------------------------ specifications

Init ==
    /\ orders = <<>>
    /\ nextOrderId = 1
    /\ reviews = <<>>
    /\ nextReviewId = 1
    /\ foods = [f \in 1..MaxFoods |-> [rating |-> Zero]]
    /\ favorites = <<>>
    /\ nextFavoriteId = 1
    /\ users = <<>>
    /\ nextUserId = 1
    /\ req = [r \in Reqs |-> NoRequest]

\* The order routes; every order is placed by the same buyer, the delete
\* requests come from every principal.
NextOrders ==
    \E r \in Reqs :
        \/ PostOrders(r, "a@x")
        \/ \E id \in OrderIdInputs, s \in StatusInputs : PatchOrderStatus(r, id, s)
        \/ PatchOrderStatus_updateOne(r)
        \/ \E id \in OrderIdInputs : PatchOrderPay(r, id)
        \/ \E id \in OrderIdInputs, e \in Emails : DeleteOrder(r, id, e)
        \/ DeleteOrder_deleteOne(r)

\* The order routes, any number of times, in any interleaving.
SpecOrders == Init /\ [][NextOrders]_vars

\* The review routes.
NextReviews(r) ==
    \/ \E f \in FoodIdInputs, n \in RatingInputs : PostReviews(r, f, n, "a@x")
    \/ PostReviews_find(r)
    \/ PostReviews_updateOne(r)
    \/ \E id \in ReviewIdInputs, e \in Emails : DeleteReview(r, id, e)
    \/ DeleteReview_deleteOne(r)

\* The review routes, any number of times, in any interleaving.
SpecReviews == Init /\ [][\E r \in Reqs : NextReviews(r)]_vars

\* The review routes, one request at a time: a request arrives when the
\* handler of the one before has responded.
SpecReviewsSeq == Init /\ [][NextReviews("r1")]_vars

\* POST /reviews alone, any number of times, in any interleaving: no review
\* is ever removed.
NextSubmits ==
    \E r \in Reqs :
        \/ \E f \in FoodIdInputs, n \in RatingInputs : PostReviews(r, f, n, "a@x")
        \/ PostReviews_find(r)
        \/ PostReviews_updateOne(r)

SpecSubmits == Init /\ [][NextSubmits]_vars

\* The favorite routes, any number of times, in any interleaving.
NextFavorites ==
    \E r \in Reqs :
        \/ \E e \in Emails, m \in MealIdInputs : PostFavorites(r, e, m)
        \/ PostFavorites_insertOne(r)
        \/ \E id \in FavoriteIdInputs, e \in Emails : DeleteFavorite(r, id, e)
        \/ DeleteFavorite_deleteOne(r)

SpecFavorites == Init /\ [][NextFavorites]_vars

\* The routes that create and delete orders, reviews and favorites.  The
\* three collections share no document and no handler of one reads another,
\* so a behaviour is explored for one collection at a time: once a document
\* of one collection was created, the requests are those of its routes.
OnlyOrders == nextReviewId = 1 /\ nextFavoriteId = 1
OnlyReviews == nextOrderId = 1 /\ nextFavoriteId = 1
OnlyFavorites == nextOrderId = 1 /\ nextReviewId = 1

NextDeletes ==
    \E r \in Reqs :
        \/ /\ OnlyOrders
           /\ \/ \E e \in Emails : PostOrders(r, e)
              \/ \E id \in OrderIdInputs, e \in Emails : DeleteOrder(r, id, e)
              \/ DeleteOrder_deleteOne(r)
        \/ /\ OnlyReviews
           /\ \/ \E e \in Emails : PostReviews(r, 1, 4, e)
              \/ PostReviews_find(r)
              \/ PostReviews_updateOne(r)
              \/ \E id \in ReviewIdInputs, e \in Emails : DeleteReview(r, id, e)
              \/ DeleteReview_deleteOne(r)
        \/ /\ OnlyFavorites
           /\ \/ \E e \in Emails, m \in MealIdInputs : PostFavorites(r, e, m)
              \/ PostFavorites_insertOne(r)
              \/ \E id \in FavoriteIdInputs, e \in Emails : DeleteFavorite(r, id, e)
              \/ DeleteFavorite_deleteOne(r)

SpecDeletes == Init /\ [][NextDeletes]_vars

\* The order and review routes with a storage that can reject any driver
\* call, explored for one of the two collections at a time; the status
\* requests ask for accepted, the reviews are of meal 1.
NextFaults ==
    \E r \in Reqs :
        \/ /\ nextReviewId = 1
           /\ \/ PostOrders(r, "a@x")
              \/ \E id \in OrderIdInputs : PatchOrderStatus(r, id, "accepted")
              \/ PatchOrderStatus_updateOne(r)
              \/ \E id \in OrderIdInputs : PatchOrderPay(r, id)
              \/ \E id \in OrderIdInputs : DeleteOrder(r, id, "a@x")
              \/ DeleteOrder_deleteOne(r)
              \/ FirstCallFails(r, "POST /orders", 0, 0, "a@x", "none")
              \/ \E id \in OrderIdInputs :
                    FirstCallFails(r, "PATCH /orders/:id/status", id, 0,
                                   "accepted", "none")
              \/ \E id \in OrderIdInputs :
                    FirstCallFails(r, "PATCH /orders/:id/pay", id, 0, "none", "none")
              \/ \E id \in OrderIdInputs :
                    FirstCallFails(r, "DELETE /orders/:id", id, 0, "none", "a@x")
        \/ /\ nextOrderId = 1
           /\ \/ \E n \in RatingInputs : PostReviews(r, 1, n, "a@x")
              \/ PostReviews_find(r)
              \/ PostReviews_updateOne(r)
              \/ \E id \in ReviewIdInputs : DeleteReview(r, id, "a@x")
              \/ DeleteReview_deleteOne(r)
              \/ \E n \in RatingInputs :
                    FirstCallFails(r, "POST /reviews", 1, n, "a@x", "none")
              \/ \E id \in ReviewIdInputs :
                    FirstCallFails(r, "DELETE /reviews/:id", id, 0, "none", "a@x")
        \/ LaterCallFails(r)

SpecFaults == Init /\ [][NextFaults]_vars

\* A users collection as POST /users leaves it: one user per e-mail, any
\* role and status except an admin flagged as fraud.
InitUsers ==
    /\ users \in [UserIds -> [email : Emails, role : validRoles,
                              status : {"active", "fraud"}]]
    /\ \A u \in UserIds :
          /\ users[u].email = UserEmail[u]
          /\ ~(users[u].role = "admin" /\ users[u].status = "fraud")
    /\ nextUserId = Cardinality(UserIds) + 1
    /\ orders = <<>>
    /\ nextOrderId = 1
    /\ reviews = <<>>
    /\ nextReviewId = 1
    /\ foods = [f \in 1..MaxFoods |-> [rating |-> Zero]]
    /\ favorites = <<>>
    /\ nextFavoriteId = 1
    /\ req = [r \in Reqs |-> NoRequest]

\* The role and fraud routes, any number of times, in any interleaving.
NextUsers ==
    \E r \in Reqs :
        \/ \E id \in UserIdInputs, x \in RoleInputs, e \in Principals :
              PatchUserRole(r, id, x, e)
        \/ PatchUserRole_findOne(r)
        \/ PatchUserRole_updateOne(r)
        \/ \E id \in UserIdInputs, e \in Principals : PatchUserFraud(r, id, e)
        \/ PatchUserFraud_updateOne(r)

SpecUsers == InitUsers /\ [][NextUsers]_vars

\* POST /users on an empty collection, any number of times, in any
\* interleaving.
NextPostUsers ==
    \E r \in Reqs :
        \/ \E e \in Emails, x \in RolePayloads, s \in StatusPayloads :
              PostUsers(r, e, x, s)
        \/ PostUsers_insertOne(r)

SpecPostUsers == Init /\ [][NextPostUsers]_vars

\* ---------------------------------------------------------- claims: orders

\* The handler in slot r has just taken the first step of route `op`.
Arrived(r, op) == Free(r) /\ req'[r].op = op /\ req'[r] # req[r]

\* The handler in slot r has just taken its step at the call `call` of `op`.
Stepped(r, op, call) == At(r, op, call) /\ req'[r] # req[r]

StatusMoves ==
    {<<"pending", "accepted">>, <<"pending", "cancelled">>,
     <<"accepted", "cancelled">>, <<"accepted", "delivered">>}

\* C1: every change of a stored order's orderStatus is one of
\* pending->accepted, pending->cancelled, accepted->cancelled or
\* accepted->delivered (so delivered and cancelled are never left), in every
\* interleaving of the order routes.
C1_StatusOnlyMovesForward ==
    [][\A o \in DOMAIN orders \cap DOMAIN orders' :
          orders'[o].orderStatus # orders[o].orderStatus
              => <<orders[o].orderStatus, orders'[o].orderStatus>> \in StatusMoves]_vars

\* C2: a status request for a stored order that is cancelled or delivered is
\* answered 400, whatever status it asks for, and changes no order.
C2_ClosedOrderRejected ==
    [][\A r \in Reqs :
          (/\ Arrived(r, "PATCH /orders/:id/status")
           /\ req'[r].id \in DOMAIN orders
           /\ orders[req'[r].id].orderStatus \in {"cancelled", "delivered"})
              => /\ req'[r].pc = "done"
                 /\ req'[r].code = 400
                 /\ orders' = orders]_vars

\* A status request for a delivered order was answered 400 and the order is
\* still delivered.
C2_Witness ==
    \E r \in Reqs :
        /\ At(r, "PATCH /orders/:id/status", "done")
        /\ req[r].arg = "accepted"
        /\ req[r].code = 400
        /\ req[r].msg = "Order already closed"
        /\ req[r].id \in DOMAIN orders
        /\ orders[req[r].id].orderStatus = "delivered"

\* C3: a request for status delivered on a stored order that is not accepted
\* is answered 400 and changes no order; a request the rules let through sets
\* the stored status to the requested one and is answered with success.  On
\* a new order: delivered is rejected, accepted succeeds, delivered succeeds,
\* cancelled is rejected.
C3_DeliveredNeedsAccepted ==
    [][\A r \in Reqs :
          /\ (/\ Arrived(r, "PATCH /orders/:id/status")
              /\ req'[r].arg = "delivered"
              /\ req'[r].id \in DOMAIN orders
              /\ orders[req'[r].id].orderStatus # "accepted")
                 => /\ req'[r].pc = "done"
                    /\ req'[r].code = 400
                    /\ orders' = orders
          /\ (/\ Arrived(r, "PATCH /orders/:id/status")
              /\ req'[r].id \in DOMAIN orders
              /\ \/ /\ orders[req'[r].id].orderStatus = "pending"
                    /\ req'[r].arg \in {"accepted", "cancelled"}
                 \/ /\ orders[req'[r].id].orderStatus = "accepted"
                    /\ req'[r].arg \in validStatus)
                 => req'[r].pc = "updateOne"
          /\ (/\ Stepped(r, "PATCH /orders/:id/status", "updateOne")
              /\ req[r].id \in DOMAIN orders)
                 => /\ req'[r].code = 200
                    /\ req[r].id \in DOMAIN orders'
                    /\ orders'[req[r].id].orderStatus = req[r].arg]_vars

\* A request for delivered on a pending order was answered 'Order must be
\* accepted first' and the order is still pending.
C3_Witness ==
    \E r \in Reqs :
        /\ At(r, "PATCH /orders/:id/status", "done")
        /\ req[r].arg = "delivered"
        /\ req[r].code = 400
        /\ req[r].msg = "Order must be accepted first"
        /\ req[r].id \in DOMAIN orders
        /\ orders[req[r].id].orderStatus = "pending"

\* C4: a pay request with a well-formed id is answered with success whatever
\* the order's orderStatus, and the order of that id is then paid.
C4_PayAlwaysPaid ==
    [][\A r \in Reqs :
          (Arrived(r, "PATCH /orders/:id/pay") /\ IsObjectId(req'[r].id))
              => /\ req'[r].pc = "done"
                 /\ req'[r].code = 200
                 /\ req'[r].id \in DOMAIN orders
                       => /\ req'[r].id \in DOMAIN orders'
                          /\ orders'[req'[r].id].paymentStatus = "paid"
                          /\ orders'[req'[r].id].paidAt = "set"]_vars

\* A pay request for a cancelled order was answered with success and the
\* order is paid.
C4_Witness ==
    \E r \in Reqs :
        /\ At(r, "PATCH /orders/:id/pay", "done")
        /\ req[r].code = 200
        /\ req[r].id \in DOMAIN orders
        /\ orders[req[r].id].orderStatus = "cancelled"
        /\ orders[req[r].id].paymentStatus = "paid"

\* C5: paymentStatus only changes from pending to paid; an order that is
\* paid stays paid as long as it is stored, and a deleted order's id is
\* never stored again.
C5_PaidNeverReverts ==
    [][/\ \A o \in DOMAIN orders \cap DOMAIN orders' :
             orders'[o].paymentStatus # orders[o].paymentStatus
                 => /\ orders[o].paymentStatus = "pending"
                    /\ orders'[o].paymentStatus = "paid"
       /\ \A o \in DOMAIN orders' \ DOMAIN orders :
             /\ o = nextOrderId
             /\ orders'[o].paymentStatus = "pending"]_vars

\* A paid order went through a status change after the payment and is
\* still paid.
C5_Witness ==
    \E r \in Reqs :
        /\ At(r, "PATCH /orders/:id/status", "done")
        /\ req[r].code = 200
        /\ req[r].id \in DOMAIN orders
        /\ orders[req[r].id].orderStatus = req[r].arg
        /\ orders[req[r].id].paymentStatus = "paid"

\* --------------------------------------------------------- claims: reviews

\* rating is the arithmetic mean of the rating fields of the stored reviews
\* whose foodId is f, and 0 when there is none.
IsMeanOfReviews(rating, f) ==
    LET of == {x \in DOMAIN reviews : reviews[x].foodId = f}
    IN  IF of = {} THEN rating = Zero
        ELSE rating[1] * Cardinality(of) = SumRating(of) * rating[2]

\* C6: when every submitReview and deleteReview has completed, every meal's
\* rating is the mean of the stored reviews that reference it, 0 when none
\* does.
C6_RatingIsMean ==
    (\A r \in Reqs : Free(r))
        => \A f \in DOMAIN foods : IsMeanOfReviews(foods[f].rating, f)

\* C7: with one review request at a time, right after a successful
\* submitReview for an existing meal F the rating of F is the mean of the
\* reviews stored for F, and the avgRating of the response is that mean.
C7_RatingAfterSubmit ==
    \A r \in Reqs :
        (/\ At(r, "POST /reviews", "done")
         /\ req[r].code = 200
         /\ req[r].id \in DOMAIN foods)
            => /\ IsMeanOfReviews(foods[req[r].id].rating, req[r].id)
               /\ req[r].val = foods[req[r].id].rating

\* Ratings 4 then 2 were submitted for meal 1: the second response carries
\* 3 and the meal's rating is 3.
C7_Witness ==
    \E r \in Reqs :
        /\ At(r, "POST /reviews", "done")
        /\ req[r].code = 200
        /\ req[r].id = 1
        /\ req[r].n = 2
        /\ req[r].val = <<3, 1>>
        /\ foods[1].rating = <<3, 1>>
        /\ \E x, y \in DOMAIN reviews :
              /\ x < y
              /\ y = req[r].ins
              /\ reviews[x].foodId = 1 /\ reviews[x].rating = 4
              /\ reviews[y].foodId = 1 /\ reviews[y].rating = 2

\* ------------------------------------------------------- claims: favorites

\* C8: in every reachable state, also with interleaved POST /favorites
\* handlers, at most one favorite is stored per (userEmail, mealId).
C8_OneFavoritePerPair ==
    \A x, y \in DOMAIN favorites :
        (/\ favorites[x].userEmail = favorites[y].userEmail
         /\ favorites[x].mealId = favorites[y].mealId) => x = y

\* --------------------------------------------------------- claims: deletes

\* The e-mail a stored order, review or favorite carries as its owner.
OwnerOf(doc) ==
    IF "reviewerEmail" \in DOMAIN doc THEN doc.reviewerEmail ELSE doc.userEmail

\* The delete request that has just arrived in slot r: a well-formed id that
\* is not stored is answered 404, a stored document of another principal is
\* answered 403 and stays.
DeleteChecked(r, op, coll, collNext) ==
    Arrived(r, op) =>
        /\ (IsObjectId(req'[r].id) /\ req'[r].id \notin DOMAIN coll)
              => req'[r].pc = "done" /\ req'[r].code = 404
        /\ (req'[r].id \in DOMAIN coll /\ OwnerOf(coll[req'[r].id]) # req'[r].who)
              => /\ req'[r].pc = "done" /\ req'[r].code = 403
                 /\ collNext = coll

\* Every document that leaves the collection is removed by the deleteOne of
\* a request whose principal is the document's owner.
RemovedByOwner(op, coll, collNext) ==
    \A x \in DOMAIN coll \ DOMAIN collNext :
        \E r \in Reqs :
            /\ Stepped(r, op, "deleteOne")
            /\ req[r].id = x
            /\ req[r].who = OwnerOf(coll[x])

\* C9: deleteOrder, deleteReview and DELETE /favorites/:id answer 403 to a
\* principal that is not the stored resource's owner and leave the resource
\* stored, answer 404 when no resource has the id, and a resource is only
\* ever removed by a request of its owner.
C9_OnlyOwnerDeletes ==
    [][/\ \A r \in Reqs :
             /\ DeleteChecked(r, "DELETE /orders/:id", orders, orders')
             /\ DeleteChecked(r, "DELETE /reviews/:id", reviews, reviews')
             /\ DeleteChecked(r, "DELETE /favorites/:id", favorites, favorites')
       /\ RemovedByOwner("DELETE /orders/:id", orders, orders')
       /\ RemovedByOwner("DELETE /reviews/:id", reviews, reviews')
       /\ RemovedByOwner("DELETE /favorites/:id", favorites, favorites')]_vars

\* A delete request for a stored review from a principal that is not its
\* reviewer was answered 403 and the review is still stored.
C9_Witness ==
    \E r \in Reqs :
        /\ At(r, "DELETE /reviews/:id", "done")
        /\ req[r].code = 403
        /\ req[r].id \in DOMAIN reviews
        /\ reviews[req[r].id].reviewerEmail # req[r].who

\* ----------------------------------------------------------- claims: users

\* The handler in slot r writes user u in this step, and its principal is an
\* admin: the role handler has passed its admin check, or the principal's
\* user record has role admin now.
WrittenByAdmin(r, u) ==
    /\ \/ Stepped(r, "PATCH /users/:id/role", "updateOne")
       \/ Stepped(r, "PATCH /users/:id/fraud", "updateOne")
    /\ req[r].id = u
    /\ \/ req[r].op = "PATCH /users/:id/role"
       \/ ~NotAdmin(req[r].who)

\* C10: every change of a stored user's role or status is made by a request
\* whose principal has a user record with role admin.
C10_OnlyAdminChangesUsers ==
    [][\A u \in DOMAIN users \cap DOMAIN users' :
          (users'[u].role # users[u].role \/ users'[u].status # users[u].status)
              => \E r \in Reqs : WrittenByAdmin(r, u)]_vars

\* C11: POST /users is idempotent per e-mail: in every reachable state,
\* also with interleaved handlers, at most one user record is stored per
\* e-mail.
C11_OneUserPerEmail ==
    \A x, y \in DOMAIN users : users[x].email = users[y].email => x = y

\* The reviews of meal f among the first k reviews ever stored: what find()
\* returned to a handler that read when k reviews existed.
StoredUpTo(f, k) ==
    {x \in DOMAIN reviews : reviews[x].foodId = f /\ x <= k}

\* rating is the arithmetic mean of the rating fields of the reviews in set.
IsMeanOf(rating, set) ==
    rating[1] * Cardinality(set) = SumRating(set) * rating[2]

\* C12: two concurrent submissions for one meal can leave the meal's rating
\* different from the mean of its stored reviews (witness), and what is then
\* stored is a lost update: the rating a meal carries is always the mean of
\* the reviews that were stored at some earlier moment, the last write
\* carrying a mean computed from a stale review set.
C12_RatingIsMeanOfStaleSet ==
    \A f \in DOMAIN foods :
        \/ foods[f].rating = Zero
        \/ \E k \in 1..(nextReviewId - 1) :
              /\ StoredUpTo(f, k) # {}
              /\ IsMeanOf(foods[f].rating, StoredUpTo(f, k))

\* Both submissions for meal 1 have completed, both reviews are stored, and
\* the meal's rating is not their mean.
C12_Witness ==
    /\ \A r \in Reqs : Free(r)
    /\ Cardinality(StoredUpTo(1, 2)) = 2
    /\ ~IsMeanOfReviews(foods[1].rating, 1)
    /\ foods[1].rating # Zero

\* C13: PATCH /users/:id/fraud on a stored user answers 403 when the user it
\* reads has role admin and 400 when that user is already fraud, leaving the
\* users collection as it was; for any other stored user the handler goes
\* on to its update, which sets the user's status to fraud, leaves the role,
\* and answers success.
C13_FraudGuard ==
    [][\A r \in Reqs :
          /\ (Arrived(r, "PATCH /users/:id/fraud") /\ req'[r].id \in DOMAIN users)
                => LET user == users[req'[r].id]
                   IN  /\ users' = users
                       /\ user.role = "admin"
                            => req'[r].pc = "done" /\ req'[r].code = 403
                       /\ (user.role # "admin" /\ user.status = "fraud")
                            => req'[r].pc = "done" /\ req'[r].code = 400
                       /\ (user.role # "admin" /\ user.status # "fraud")
                            => req'[r].pc = "updateOne"
          /\ (Stepped(r, "PATCH /users/:id/fraud", "updateOne")
                /\ req[r].id \in DOMAIN users)
                => /\ req'[r].code = 200
                   /\ users'[req[r].id].status = "fraud"
                   /\ users'[req[r].id].role = users[req[r].id].role
                   /\ \A u \in DOMAIN users \ {req[r].id} : users'[u] = users[u]]_vars

\* The last response is the 400 of a fraud request on a user who is not an
\* admin and was already fraud.
C13_Witness ==
    \E r \in Reqs :
        /\ At(r, "PATCH /users/:id/fraud", "done")
        /\ req[r].code = 400
        /\ req[r].id \in DOMAIN users
        /\ users[req[r].id].status = "fraud"
        /\ users[req[r].id].role # "admin"

\* C14: every order that POST /orders stores has orderStatus pending and
\* paymentStatus pending whatever the payload carries, and every stored
\* order always has orderStatus in {pending, accepted, delivered, cancelled}
\* and paymentStatus in {pending, paid}.
C14_StoredStatuses ==
    [][/\ \A o \in DOMAIN orders' \ DOMAIN orders :
             /\ orders'[o].orderStatus = "pending"
             /\ orders'[o].paymentStatus = "pending"
       /\ \A o \in DOMAIN orders' :
             /\ orders'[o].orderStatus
                    \in {"pending", "accepted", "delivered", "cancelled"}
             /\ orders'[o].paymentStatus \in {"pending", "paid"}]_vars

\* The last response is that of a POST /orders whose payload said delivered
\* and paid; the order it stored is pending and pending.
C14_Witness ==
    \E r \in Reqs :
        /\ At(r, "POST /orders", "done")
        /\ req[r].body = <<"delivered", "paid">>
        /\ req[r].ins \in DOMAIN orders
        /\ orders[req[r].ins].orderStatus = "pending"
        /\ orders[req[r].ins].paymentStatus = "pending"

\* C15: a step of PATCH /orders/:id/status changes no order's paymentStatus
\* or paidAt and no meal's rating; a step of PATCH /orders/:id/pay changes
\* no order's orderStatus; both add and remove no order and leave every
\* order other than the one named by :id as it was.
C15_StatusAndPayFrames ==
    [][\A r \in Reqs :
          /\ (\/ Arrived(r, "PATCH /orders/:id/status")
              \/ Stepped(r, "PATCH /orders/:id/status", "updateOne"))
                => /\ foods' = foods
                   /\ DOMAIN orders' = DOMAIN orders
                   /\ \A o \in DOMAIN orders :
                         /\ orders'[o].paymentStatus = orders[o].paymentStatus
                         /\ orders'[o].paidAt = orders[o].paidAt
                         /\ o # req'[r].id => orders'[o] = orders[o]
          /\ Arrived(r, "PATCH /orders/:id/pay")
                => /\ foods' = foods
                   /\ DOMAIN orders' = DOMAIN orders
                   /\ \A o \in DOMAIN orders :
                         /\ orders'[o].orderStatus = orders[o].orderStatus
                         /\ o # req'[r].id => orders'[o] = orders[o]]_vars

\* Two orders are stored; one was accepted and then paid, the pay request
\* being the last to respond, and the other is still pending and unpaid.
C15_Witness ==
    \E r \in Reqs :
        /\ At(r, "PATCH /orders/:id/pay", "done")
        /\ req[r].code = 200
        /\ req[r].id \in DOMAIN orders
        /\ orders[req[r].id].orderStatus = "accepted"
        /\ orders[req[r].id].paymentStatus = "paid"
        /\ \E o \in DOMAIN orders \ {req[r].id} :
              /\ orders[o].orderStatus = "pending"
              /\ orders[o].paymentStatus = "pending"

\* C17: whenever PATCH /orders/:id/status answers success, the order named
\* by :id is stored and its orderStatus is the requested status, written by
\* that request, also when a delete or another status request for the same
\* order runs between the handler's findOne and its updateOne.
C17_SuccessMeansWritten ==
    [][\A r \in Reqs :
          (/\ Stepped(r, "PATCH /orders/:id/status", "updateOne")
           /\ req'[r].code = 200)
             => /\ req[r].id \in DOMAIN orders'
                /\ orders'[req[r].id].orderStatus = req[r].arg]_vars

\* C18: POST /reviews is all-or-nothing: when it has answered 500 the review
\* of that request is not stored, and when it has answered success the
\* review is stored and the meal its foodId names carries the rating the
\* request computed.
C18_AllOrNothing ==
    \A r \in Reqs :
        At(r, "POST /reviews", "done")
            => /\ req[r].code = 500 => req[r].ins \notin DOMAIN reviews
               /\ req[r].code = 200
                    => /\ req[r].ins \in DOMAIN reviews
                       /\ req[r].id \in DOMAIN foods
                       /\ foods[req[r].id].rating = req[r].val

\* C19: starting from a users collection in which no user is both admin and
\* fraud, after any sequence and interleaving of PATCH /users/:id/role and
\* PATCH /users/:id/fraud no stored user has role admin together with
\* status fraud.
C19_NoAdminIsFraud ==
    \A u \in DOMAIN users :
        ~(users[u].role = "admin" /\ users[u].status = "fraud")

\* C16: when a driver call of a handler of POST /orders, PATCH
\* /orders/:id/status, PATCH /orders/:id/pay, DELETE /orders/:id, POST
\* /reviews or DELETE /reviews/:id rejects, the handler answers 500 with its
\* failure message in that same step and is finished, the rejected call is
\* not made again (the step writes nothing), the handlers of the other
\* requests stay where they are, and the slot takes the next request.
C16_FaultAnswered500 ==
    /\ [](\A r \in Reqs :
            req[r].err = "MongoError"
                => /\ req[r].pc = "done"
                   /\ req[r].code = 500
                   /\ req[r].msg = FailureMessage(req[r].op)
                   /\ ENABLED PatchOrderPay(r, 1))
    /\ [][\A r \in Reqs :
            (req'[r] # req[r] /\ req'[r].err = "MongoError")
                => /\ <<orders, reviews, foods>>' = <<orders, reviews, foods>>
                   /\ \A s \in Reqs \ {r} :
                         ~Free(s) => req'[s] = req[s]]_vars

\* The update of a status request was rejected and answered 500 while
\* another request was waiting for its own call; the order is still pending.
C16_Witness ==
    \E r, s \in Reqs :
        /\ At(r, "PATCH /orders/:id/status", "done")
        /\ req[r].err = "MongoError"
        /\ req[r].code = 500
        /\ req[r].id \in DOMAIN orders
        /\ orders[req[r].id].orderStatus = "pending"
        /\ ~Free(s)

====
